---- MODULE Spec2Model ----
(***************************************************************************)
(* Model of @vorthain/tab-safe-timers (src/unnamed/part_002, index.js):    *)
(* the TabSafeTimers Coordinator, the embedded worker (WORKER_CODE), the   *)
(* module-level singleton and the host objects they touch (the four global *)
(* timer slots of window, Worker objects, blob URLs).                      *)
(***************************************************************************)
EXTENDS Integers, Sequences, FiniteSets, TLC

(* ----------------------------- bounds ---------------------------------- *)
\* TabSafeTimers objects ever constructed by initTabSafeTimers()
MaxCoord == 2
\* timers registered in one run, over all Coordinators
MaxId == 2
\* init() calls that get past the environment check (each binds the natives)
MaxInits == 2
\* tick notifications in flight from one worker
MaxQueue == 1

(* ------------------------- host function objects ----------------------- *)
Which == {"setInterval", "setTimeout", "clearInterval", "clearTimeout"}

\* A function object: <<tag, slot name, creation serial, coordinator, target>>
NoTarget == <<>>
NativeFn(w) == <<"native", w, 0, 0, NoTarget>>

\* Function.prototype.bind: a NEW function object wrapping f
Bind(f, n) == <<"bound", f[2], n, 0, f>>

\* the closure overrideGlobalTimers() installs in slot w for Coordinator c
Override(c, w, n) == <<"override", w, n, c, NoTarget>>

IsOverride(f) == f[1] = "override"

(* ------------------------------ callbacks ------------------------------ *)
\* values a caller may pass as the callback argument
\* cbOk returns, cbThrow raises; the re-entrant ones call back into the
\* library while they run: cbCancelSelf cancels its own id, cbRegister starts
\* a new timeout, cbDestroy calls destroy() on its Coordinator
FunctionCallbacks == {"cbOk", "cbThrow", "cbCancelSelf", "cbRegister", "cbDestroy"}
NonFunctions == {"not a function"}
\* typeof callback === 'function'
IsFunction(cb) == cb \in FunctionCallbacks

(* ------------------------------- delays -------------------------------- *)
\* A delay argument: absent (undefined), a number (given with the text
\* Number::toString produces for it) or a string, as a sequence of characters.
Absent == <<"absent", <<>>>>
NumArg(txt) == <<"number", txt>>
StrArg(txt) == <<"string", txt>>

DigitVal == [ch \in {"0","1","2","3","4","5","6","7","8","9"} |->
               CASE ch = "0" -> 0 [] ch = "1" -> 1 [] ch = "2" -> 2 [] ch = "3" -> 3
                 [] ch = "4" -> 4 [] ch = "5" -> 5 [] ch = "6" -> 6 [] ch = "7" -> 7
                 [] ch = "8" -> 8 [] ch = "9" -> 9]
IsDigit(ch) == ch \in DOMAIN DigitVal
\* a parse result: <<"NaN", 0>> or <<"int", value>>
NaN == <<"NaN", 0>>
IntVal(v) == <<"int", v>>

RECURSIVE SkipWhite(_)
SkipWhite(txt) ==
  IF txt # <<>> /\ Head(txt) = " " THEN SkipWhite(Tail(txt)) ELSE txt

RECURSIVE ParseDigits(_, _)
\* value of the longest digit prefix of txt, continuing from acc
ParseDigits(txt, acc) ==
  IF txt # <<>> /\ IsDigit(Head(txt))
    THEN ParseDigits(Tail(txt), 10 * acc + DigitVal[Head(txt)])
    ELSE acc

\* parseInt(string), radix 10: leading white space, optional sign, digits
ParseIntText(txt) ==
  LET t == SkipWhite(txt)
      neg == t # <<>> /\ Head(t) = "-"
      body == IF t # <<>> /\ Head(t) \in {"-", "+"} THEN Tail(t) ELSE t
  IN IF body = <<>> \/ ~IsDigit(Head(body)) THEN NaN
     ELSE IF neg THEN IntVal(0 - ParseDigits(body, 0)) ELSE IntVal(ParseDigits(body, 0))

Max(a, b) == IF a >= b THEN a ELSE b

\* Math.max(0, parseInt(delay) || 0), with the default parameter delay = 0
SanitizeDelay(d) ==
  LET p == IF d = Absent THEN IntVal(0) ELSE ParseIntText(d[2])
      q == IF p = NaN \/ p[2] = 0 THEN 0 ELSE p[2]
  IN Max(0, q)

\* delay arguments callers pass: absent, 7, -50, 2.9, 5e-7 (numbers, by their
\* Number::toString text), "abc", "15", " 42", "12px", "1e3" (strings)
DelayInputs ==
  { Absent,
    NumArg(<<"7">>), NumArg(<<"-", "5", "0">>), NumArg(<<"2", ".", "9">>),
    NumArg(<<"5", "e", "-", "7">>),
    StrArg(<<"a", "b", "c">>), StrArg(<<"1", "5">>), StrArg(<<" ", "4", "2">>),
    StrArg(<<"1", "2", "p", "x">>), StrArg(<<"1", "e", "3">>) }

\* the argument lists <<callback, delay, trailing arguments>> the callers of
\* the model pass to the start functions
StartCalls ==
  { <<"cbOk", NumArg(<<"7">>), <<1, 2, 3>> >>,
    <<"cbThrow", StrArg(<<"a", "b", "c">>), <<4>> >>,
    <<"not a function", Absent, <<>> >> }

\* start calls whose callback calls back into the library when it runs
ReentrantCalls ==
  { <<"cbCancelSelf", NumArg(<<"7">>), <<>> >>,
    <<"cbRegister", Absent, <<>> >>,
    <<"cbDestroy", Absent, <<>> >> }

(* -------------------------------- host --------------------------------- *)
\* What the host does when one init() call constructs its worker:
\*   blob          Blob, createObjectURL and new Worker(blobUrl) succeed
\*   dataNoUrl     Blob / createObjectURL throws, new Worker(dataUrl) succeeds
\*   dataWithUrl   createObjectURL succeeds, new Worker(blobUrl) throws,
\*                 new Worker(dataUrl) succeeds
\*   failNoUrl     createObjectURL throws and new Worker(dataUrl) throws
\*   failWithUrl   createObjectURL succeeds and both new Worker calls throw
HostOutcomes == {"blob", "dataNoUrl", "dataWithUrl", "failNoUrl", "failWithUrl"}
FailOutcomes == {"failNoUrl", "failWithUrl"}

(* ------------------------------- state --------------------------------- *)
VARIABLES
  workerSupported,  \* typeof Worker !== 'undefined' in this host
  window,           \* the four global timer slots: [Which -> function object]
  coords,           \* the TabSafeTimers objects constructed so far (sequence)
  workers,          \* the Worker objects constructed so far (sequence)
  instance,         \* the module-level singleton: 0 (null) or an index of coords
  liveUrls,         \* blob URLs created by URL.createObjectURL and not revoked
  nUrls,            \* blob URLs created so far
  nSerial           \* function-object creation serial (one per init() that binds)

vars == <<workerSupported, window, coords, workers, instance, liveUrls, nUrls,
          nSerial>>

\* return values: <<kind, number>>
Undefined == <<"undefined", 0>>
NativeHandle == <<"nativeHandle", 0>>
Bool(b) == IF b THEN <<"true", 0>> ELSE <<"false", 0>>
IdVal(n) == <<"id", n>>
InstanceVal(c) == IF c = 0 THEN <<"null", 0>> ELSE <<"instance", c>>

\* the program state as one value, with the trace (ev: the calls made on the
\* host and on callbacks), the return value and the exception of an operation
Cur == [window |-> window, coords |-> coords, workers |-> workers,
        instance |-> instance, liveUrls |-> liveUrls, nUrls |-> nUrls,
        nSerial |-> nSerial,
        ev |-> <<>>, ret |-> Undefined, threw |-> "none"]

Emit(s, e) == [s EXCEPT !.ev = Append(@, e)]
Return(s, r) == [s EXCEPT !.ret = r]
Throw(s, err) == [s EXCEPT !.threw = err, !.ret = Undefined]

\* Map.prototype.set / delete on an id-keyed map held as a function
MapSet(m, k, v) == [i \in DOMAIN m \cup {k} |-> IF i = k THEN v ELSE m[i]]
MapDelete(m, k) == [i \in DOMAIN m \ {k} |-> m[i]]
EmptyMap == <<>>

\* the elements of a finite set of integers in increasing order
RECURSIVE Ascending(_)
Ascending(S) ==
  IF S = {} THEN <<>>
  ELSE LET m == CHOOSE x \in S : \A y \in S : x <= y
       IN <<m>> \o Ascending(S \ {m})

\* an Option: <<>> is null, <<v>> holds v
Null == <<>>
Some(v) == <<v>>

(* ----------------------------- Coordinator ----------------------------- *)
\* TabSafeTimers.constructor
NewCoordinator ==
  [isInitialized |-> FALSE, worker |-> 0, workerUrl |-> 0,
   callbacks |-> EmptyMap, idCounter |-> 0, native |-> Null]

\* new Worker(url)
NewWorker(c, url) ==
  [owner |-> c, terminated |-> FALSE, url |-> url,
   intervalMap |-> {}, timeoutMap |-> {}, inbox |-> <<>>, outbox |-> <<>>]

\* worker.postMessage(msg): queued for the worker unless it was terminated
PostMessage(s, w, msg) ==
  LET s1 == Emit(s, <<"postMessage", w, msg>>)
  IN IF s.workers[w].terminated THEN s1
     ELSE [s1 EXCEPT !.workers[w].inbox = Append(@, msg)]

\* self.worker.postMessage(msg) on the Coordinator's worker field
CoordPost(s, c, msg) ==
  IF s.coords[c].worker = 0 THEN Throw(s, "TypeError")
  ELSE PostMessage(s, s.coords[c].worker, msg)

StartCommand(type) == IF type = "interval" THEN "setInterval" ELSE "setTimeout"

\* body of the setInterval / setTimeout override once the Coordinator is Active
StartTimer_NoValidation(s, c, type, cb, delay, args) ==
  LET sanitizedDelay == SanitizeDelay(delay)
      id == s.coords[c].idCounter + 1
      s1 == [s EXCEPT !.coords[c].idCounter = id,
                      !.coords[c].callbacks =
                         MapSet(@, id, [type |-> type, callback |-> cb,
                                        args |-> args, delay |-> sanitizedDelay])]
      s2 == CoordPost(s1, c, <<StartCommand(type), id, sanitizedDelay>>)
  IN IF s2.threw # "none" THEN s2 ELSE Return(s2, IdVal(id))
StartTimer_NoPost(s, c, type, cb, delay, args) ==
  IF ~IsFunction(cb) THEN Throw(s, "TypeError")
  ELSE
  LET sanitizedDelay == SanitizeDelay(delay)
      id == s.coords[c].idCounter + 1
      s1 == [s EXCEPT !.coords[c].idCounter = id,
                      !.coords[c].callbacks =
                         MapSet(@, id, [type |-> type, callback |-> cb,
                                        args |-> args, delay |-> sanitizedDelay])]
  IN Return(s1, IdVal(id))
StartTimer(s, c, type, cb, delay, args) ==
  IF ~IsFunction(cb) THEN Throw(s, "TypeError")
  ELSE
  LET sanitizedDelay == SanitizeDelay(delay)
      id == s.coords[c].idCounter + 1
      s1 == [s EXCEPT !.coords[c].idCounter = id,
                      !.coords[c].callbacks =
                         MapSet(@, id, [type |-> type, callback |-> cb,
                                        args |-> args, delay |-> sanitizedDelay])]
      s2 == CoordPost(s1, c, <<StartCommand(type), id, sanitizedDelay>>)
  IN IF s2.threw # "none" THEN s2 ELSE Return(s2, IdVal(id))

RECURSIVE CallFn(_, _, _)

\* body of the clearInterval / clearTimeout override (w) once Active
CancelTimer_NoPost(s, c, w, id) ==
  IF id \in DOMAIN s.coords[c].callbacks
    THEN [s EXCEPT !.coords[c].callbacks = MapDelete(@, id)]
    ELSE CallFn(s, s.coords[c].native[1][w], <<id>>)
CancelTimer_KeepEntry(s, c, w, id) ==
  IF id \in DOMAIN s.coords[c].callbacks
    THEN CoordPost(s, c, <<w, id>>)
    ELSE CallFn(s, s.coords[c].native[1][w], <<id>>)
CancelTimer_NoFallback(s, c, w, id) ==
  IF id \in DOMAIN s.coords[c].callbacks
    THEN CoordPost([s EXCEPT !.coords[c].callbacks = MapDelete(@, id)], c, <<w, id>>)
    ELSE s
CancelTimer(s, c, w, id) ==
  IF id \in DOMAIN s.coords[c].callbacks
    THEN CoordPost([s EXCEPT !.coords[c].callbacks = MapDelete(@, id)], c, <<w, id>>)
    ELSE CallFn(s, s.coords[c].native[1][w], <<id>>)

\* the parameters an override receives for the arguments a: the start
\* functions declare (callback, delay = 0, ...args), the clear functions (id)
Params(w, a) ==
  IF w \in {"setInterval", "setTimeout"}
    THEN <<a[1], IF a[2] = Absent THEN NumArg(<<"0">>) ELSE a[2], a[3]>>
    ELSE <<a[1]>>

\* the closure installed in slot w by Coordinator c, called with arguments a:
\* <<callback, delay, args>> for the start functions, <<id>> for the clear ones
OverrideBody_NoDegrade(s, c, w, a) ==
  CASE w = "setInterval" -> StartTimer(s, c, "interval", a[1], a[2], a[3])
    [] w = "setTimeout" -> StartTimer(s, c, "timeout", a[1], a[2], a[3])
    [] OTHER -> CancelTimer(s, c, w, a[1])
OverrideBody(s, c, w, a) ==
  IF ~s.coords[c].isInitialized
    THEN CallFn(s, s.coords[c].native[1][w], Params(w, a))
    ELSE CASE w = "setInterval" -> StartTimer(s, c, "interval", a[1], a[2], a[3])
           [] w = "setTimeout" -> StartTimer(s, c, "timeout", a[1], a[2], a[3])
           [] OTHER -> CancelTimer(s, c, w, a[1])

\* calling a function object: a native, a bound function or an override
CallFn(s, f, a) ==
  CASE f[1] = "native" ->
         Return(Emit(s, <<"native", f[2], a>>),
                IF f[2] \in {"setInterval", "setTimeout"} THEN NativeHandle ELSE Undefined)
    [] f[1] = "bound" -> CallFn(s, f[5], a)
    [] OTHER -> OverrideBody(s, f[4], f[2], a)

\* init(), the try / catch that creates the worker
CreateWorker(s, c, outcome) ==
  LET url == s.nUrls + 1
      w == Len(s.workers) + 1
      withUrl == Emit([s EXCEPT !.nUrls = url, !.liveUrls = @ \cup {url},
                                !.coords[c].workerUrl = url],
                      <<"createObjectURL", url>>)
      s1 == IF outcome \in {"blob", "dataWithUrl", "failWithUrl"} THEN withUrl ELSE s
  IN CASE outcome = "blob" ->
            Emit([s1 EXCEPT !.workers = Append(@, NewWorker(c, url)),
                            !.coords[c].worker = w], <<"newWorker", w>>)
       [] outcome \in {"dataNoUrl", "dataWithUrl"} ->
            Emit([s1 EXCEPT !.workers = Append(@, NewWorker(c, 0)),
                            !.coords[c].worker = w], <<"newWorker", w>>)
       [] OTHER -> Throw(s1, "Error")

\* overrideGlobalTimers(): four new closures installed in the global slots
OverrideGlobalTimers(s, c, n) ==
  [s EXCEPT !.window = [w \in Which |-> Override(c, w, n)]]

\* the native snapshot taken by init(): window.X.bind(window) for each slot
NativeSnapshot(win, n) == [w \in Which |-> Bind(win[w], n)]

\* TabSafeTimers.init()
InitCoordinator_NoGuard(s, c, outcome) ==
  IF ~workerSupported THEN Throw(s, "Error")
  ELSE
    LET n == s.nSerial + 1
        s1 == [s EXCEPT !.nSerial = n,
                        !.coords[c].native = Some(NativeSnapshot(s.window, n))]
        s2 == CreateWorker(s1, c, outcome)
    IN IF s2.threw # "none" THEN s2
       ELSE Return([OverrideGlobalTimers(s2, c, n) EXCEPT
                      !.coords[c].isInitialized = TRUE], Bool(TRUE))
InitCoordinator_OverrideFirst(s, c, outcome) ==
  IF s.coords[c].isInitialized THEN Return(s, Bool(FALSE))
  ELSE IF ~workerSupported THEN Throw(s, "Error")
  ELSE
    LET n == s.nSerial + 1
        s1 == [s EXCEPT !.nSerial = n,
                        !.coords[c].native = Some(NativeSnapshot(s.window, n))]
        s2 == CreateWorker(OverrideGlobalTimers(s1, c, n), c, outcome)
    IN IF s2.threw # "none" THEN s2
       ELSE Return([s2 EXCEPT !.coords[c].isInitialized = TRUE], Bool(TRUE))
InitCoordinator(s, c, outcome) ==
  IF s.coords[c].isInitialized THEN Return(s, Bool(FALSE))
  ELSE IF ~workerSupported THEN Throw(s, "Error")
  ELSE
    LET n == s.nSerial + 1
        s1 == [s EXCEPT !.nSerial = n,
                        !.coords[c].native = Some(NativeSnapshot(s.window, n))]
        s2 == CreateWorker(s1, c, outcome)
    IN IF s2.threw # "none" THEN s2
       ELSE Return([OverrideGlobalTimers(s2, c, n) EXCEPT
                      !.coords[c].isInitialized = TRUE], Bool(TRUE))

\* worker.terminate(): the worker's context and everything in it is gone
Terminate(s, w) ==
  Emit([s EXCEPT !.workers[w].terminated = TRUE,
                 !.workers[w].inbox = <<>>,
                 !.workers[w].intervalMap = {},
                 !.workers[w].timeoutMap = {}], <<"terminate", w>>)

\* URL.revokeObjectURL(url)
Revoke(s, url) == Emit([s EXCEPT !.liveUrls = @ \ {url}], <<"revokeObjectURL", url>>)

RECURSIVE PostClearAll(_, _, _)
\* destroy(): for (const id of this.callbacks.keys()) postMessage(clearInterval)
PostClearAll_None(s, c, ids) == s
PostClearAll(s, c, ids) ==
  IF ids = <<>> \/ s.threw # "none" THEN s
  ELSE PostClearAll(CoordPost(s, c, <<"clearInterval", Head(ids)>>), c, Tail(ids))

\* TabSafeTimers.destroy()
DestroyCoordinator_ResetCounter(s, c) ==
  IF ~s.coords[c].isInitialized THEN Return(s, Undefined)
  ELSE
    LET co == s.coords[c]
        s1 == IF co.native # Null THEN [s EXCEPT !.window = co.native[1]] ELSE s
        s2 == PostClearAll(s1, c, Ascending(DOMAIN co.callbacks))
        s3 == [s2 EXCEPT !.coords[c].callbacks = EmptyMap, !.coords[c].idCounter = 0]
        s4 == IF co.worker # 0
                THEN [Terminate(s3, co.worker) EXCEPT !.coords[c].worker = 0]
                ELSE s3
        s5 == IF co.workerUrl # 0
                THEN [Revoke(s4, co.workerUrl) EXCEPT !.coords[c].workerUrl = 0]
                ELSE s4
    IN IF s2.threw # "none" THEN s2
       ELSE Return([s5 EXCEPT !.coords[c].isInitialized = FALSE], Undefined)
DestroyCoordinator_NoGuard(s, c) ==
  LET co == s.coords[c]
      s1 == IF co.native # Null THEN [s EXCEPT !.window = co.native[1]] ELSE s
      s2 == PostClearAll(s1, c, Ascending(DOMAIN co.callbacks))
      s3 == [s2 EXCEPT !.coords[c].callbacks = EmptyMap]
      s4 == IF co.worker # 0
              THEN [Terminate(s3, co.worker) EXCEPT !.coords[c].worker = 0]
              ELSE s3
      s5 == IF co.workerUrl # 0
              THEN [Revoke(s4, co.workerUrl) EXCEPT !.coords[c].workerUrl = 0]
              ELSE s4
  IN IF s2.threw # "none" THEN s2
     ELSE Return([s5 EXCEPT !.coords[c].isInitialized = FALSE], Undefined)
DestroyCoordinator_KeepCallbacks(s, c) ==
  IF ~s.coords[c].isInitialized THEN Return(s, Undefined)
  ELSE
    LET co == s.coords[c]
        s1 == IF co.native # Null THEN [s EXCEPT !.window = co.native[1]] ELSE s
        s2 == PostClearAll(s1, c, Ascending(DOMAIN co.callbacks))
        s4 == IF co.worker # 0
                THEN [Terminate(s2, co.worker) EXCEPT !.coords[c].worker = 0]
                ELSE s2
        s5 == IF co.workerUrl # 0
                THEN [Revoke(s4, co.workerUrl) EXCEPT !.coords[c].workerUrl = 0]
                ELSE s4
    IN IF s2.threw # "none" THEN s2
       ELSE Return([s5 EXCEPT !.coords[c].isInitialized = FALSE], Undefined)
DestroyCoordinator_TerminateFirst(s, c) ==
  IF ~s.coords[c].isInitialized THEN Return(s, Undefined)
  ELSE
    LET co == s.coords[c]
        s1 == IF co.native # Null THEN [s EXCEPT !.window = co.native[1]] ELSE s
        s2 == IF co.worker # 0 THEN Terminate(s1, co.worker) ELSE s1
        s3 == PostClearAll(s2, c, Ascending(DOMAIN co.callbacks))
        s4 == [s3 EXCEPT !.coords[c].callbacks = EmptyMap, !.coords[c].worker = 0]
        s5 == IF co.workerUrl # 0
                THEN [Revoke(s4, co.workerUrl) EXCEPT !.coords[c].workerUrl = 0]
                ELSE s4
    IN IF s3.threw # "none" THEN s3
       ELSE Return([s5 EXCEPT !.coords[c].isInitialized = FALSE], Undefined)
DestroyCoordinator(s, c) ==
  IF ~s.coords[c].isInitialized THEN Return(s, Undefined)
  ELSE
    LET co == s.coords[c]
        s1 == IF co.native # Null THEN [s EXCEPT !.window = co.native[1]] ELSE s
        s2 == PostClearAll(s1, c, Ascending(DOMAIN co.callbacks))
        s3 == [s2 EXCEPT !.coords[c].callbacks = EmptyMap]
        s4 == IF co.worker # 0
                THEN [Terminate(s3, co.worker) EXCEPT !.coords[c].worker = 0]
                ELSE s3
        s5 == IF co.workerUrl # 0
                THEN [Revoke(s4, co.workerUrl) EXCEPT !.coords[c].workerUrl = 0]
                ELSE s4
    IN IF s2.threw # "none" THEN s2
       ELSE Return([s5 EXCEPT !.coords[c].isInitialized = FALSE], Undefined)

\* what running the user's callback does, and whether it throws
CallbackBody(s, c, id, cb) ==
  LET clear == IF s.coords[c].callbacks[id].type = "interval"
                 THEN "clearInterval" ELSE "clearTimeout"
      r == CASE cb = "cbThrow" -> Throw(s, "Error")
             [] cb = "cbCancelSelf" -> CallFn(s, s.window[clear], <<id>>)
             [] cb = "cbRegister" ->
                  CallFn(s, s.window["setTimeout"], <<"cbOk", NumArg(<<"7">>), <<1, 2, 3>> >>)
             [] cb = "cbDestroy" -> DestroyCoordinator(s, c)
             [] OTHER -> s
  IN [r EXCEPT !.ret = s.ret]

\* callbackData.callback(...callbackData.args) inside try / catch
InvokeCallback_Skip(s, c, id, cbd) == s
InvokeCallback_Uncaught(s, c, id, cbd) ==
  LET s1 == Emit(s, <<"invoke", c, id, cbd.callback, cbd.args>>)
  IN CallbackBody(s1, c, id, cbd.callback)
InvokeCallback(s, c, id, cbd) ==
  LET s1 == Emit(s, <<"invoke", c, id, cbd.callback, cbd.args>>)
      Catch(s2) ==
        IF s2.threw # "none"
          THEN Emit([s2 EXCEPT !.threw = "none"], <<"console.error", "callback">>)
          ELSE s2
  IN Catch(CallbackBody(s1, c, id, cbd.callback))

\* worker.onmessage of Coordinator c for the message {type: 'tick', id}
OnMessage_KeepTimeout(s, c, id) ==
  IF id \in DOMAIN s.coords[c].callbacks
    THEN InvokeCallback(s, c, id, s.coords[c].callbacks[id])
    ELSE s
OnMessage_NoCleanupAfterError(s, c, id) ==
  IF id \in DOMAIN s.coords[c].callbacks
    THEN LET callbackData == s.coords[c].callbacks[id]
             s1 == InvokeCallback_Uncaught(s, c, id, callbackData)
         IN IF s1.threw # "none"
              THEN Emit([s1 EXCEPT !.threw = "none"], <<"console.error", "callback">>)
            ELSE IF callbackData.type = "timeout"
              THEN [s1 EXCEPT !.coords[c].callbacks = MapDelete(@, id)]
              ELSE s1
    ELSE s
OnMessage_WriteBack(s, c, id) ==
  IF id \in DOMAIN s.coords[c].callbacks
    THEN LET callbackData == s.coords[c].callbacks[id]
             s1 == InvokeCallback(s, c, id, callbackData)
         IN IF s1.threw # "none" THEN s1
            ELSE IF callbackData.type = "timeout"
              THEN [s1 EXCEPT !.coords[c].callbacks = MapDelete(@, id)]
              ELSE [s1 EXCEPT !.coords[c].callbacks = MapSet(@, id, callbackData)]
    ELSE s
OnMessage(s, c, id) ==
  IF id \in DOMAIN s.coords[c].callbacks
    THEN LET callbackData == s.coords[c].callbacks[id]
             AfterCallback(s1) ==
               IF s1.threw # "none" THEN s1
               ELSE IF callbackData.type = "timeout"
                 THEN [s1 EXCEPT !.coords[c].callbacks = MapDelete(@, id)]
                 ELSE s1
         IN AfterCallback(InvokeCallback(s, c, id, callbackData))
    ELSE s

\* worker.onerror of a Coordinator
OnError_Deactivates(s) ==
  Emit([s EXCEPT !.coords = [i \in DOMAIN s.coords |->
                               [s.coords[i] EXCEPT !.isInitialized = FALSE]]],
       <<"console.error", "worker">>)
OnError(s) == Emit(s, <<"console.error", "worker">>)

(* ------------------------------ singleton ------------------------------ *)
\* initTabSafeTimers()
InitTabSafeTimers_AlwaysNew(s, outcome) ==
  LET c == Len(s.coords) + 1
      s1 == [s EXCEPT !.coords = Append(@, NewCoordinator), !.instance = c]
      s2 == InitCoordinator(s1, c, outcome)
  IN IF s2.threw # "none" THEN s2
     ELSE IF s2.ret # Bool(TRUE)
       THEN Throw([s2 EXCEPT !.instance = 0], "Error")
       ELSE Return(s2, InstanceVal(c))
InitTabSafeTimers(s, outcome) ==
  IF s.instance = 0
    THEN LET c == Len(s.coords) + 1
             s1 == [s EXCEPT !.coords = Append(@, NewCoordinator), !.instance = c]
             s2 == InitCoordinator(s1, c, outcome)
         IN IF s2.threw # "none" THEN s2
            ELSE IF s2.ret # Bool(TRUE)
              THEN Throw([s2 EXCEPT !.instance = 0], "Error")
              ELSE Return(s2, InstanceVal(c))
    ELSE Return(s, InstanceVal(s.instance))

\* destroyTabSafeTimers()
DestroyTabSafeTimers(s) ==
  IF s.instance # 0
    THEN LET s1 == DestroyCoordinator(s, s.instance)
         IN IF s1.threw # "none" THEN s1 ELSE Return([s1 EXCEPT !.instance = 0], Undefined)
    ELSE Return(s, Undefined)

\* getTabSafeTimers()
GetTabSafeTimers(s) == Return(s, InstanceVal(s.instance))

(* ------------------------------- worker -------------------------------- *)
\* WORKER_CODE, self.onmessage: one message of the inbox is processed.
\* The maps are held as the sets of ids that have a (truthy) native handle.
WorkerOnMessage_NoClearInterval(wk, msg) ==
  LET command == msg[1]
      id == msg[2]
  IN CASE command = "setInterval" -> [wk EXCEPT !.intervalMap = @ \cup {id}]
       [] command = "setTimeout" -> [wk EXCEPT !.timeoutMap = @ \cup {id}]
       [] command = "clearTimeout" -> [wk EXCEPT !.timeoutMap = @ \ {id}]
       [] OTHER -> wk
WorkerOnMessage(wk, msg) ==
  LET command == msg[1]
      id == msg[2]
  IN CASE command = "setInterval" -> [wk EXCEPT !.intervalMap = @ \cup {id}]
       [] command = "setTimeout" -> [wk EXCEPT !.timeoutMap = @ \cup {id}]
       [] command = "clearInterval" -> [wk EXCEPT !.intervalMap = @ \ {id}]
       [] command = "clearTimeout" -> [wk EXCEPT !.timeoutMap = @ \ {id}]
       [] OTHER -> wk

\* the repeating native timer of id expires: postMessage({type:'tick', id})
WorkerIntervalTick(wk, id) == [wk EXCEPT !.outbox = Append(@, id)]

\* the one-shot native timer of id expires: postMessage, then timeoutMap.delete
WorkerTimeoutTick_KeepArmed(wk, id) == [wk EXCEPT !.outbox = Append(@, id)]
WorkerTimeoutTick(wk, id) ==
  [wk EXCEPT !.outbox = Append(@, id), !.timeoutMap = @ \ {id}]

(* ------------------------------- steps --------------------------------- *)
IdSpace == 1..(MaxId + 1)
StartNames == {"setInterval", "setTimeout"}
ClearNames == {"clearInterval", "clearTimeout"}

\* the result r of an operation becomes the next state
Commit(r) ==
  /\ window' = r.window
  /\ coords' = r.coords
  /\ workers' = r.workers
  /\ instance' = r.instance
  /\ liveUrls' = r.liveUrls
  /\ nUrls' = r.nUrls
  /\ nSerial' = r.nSerial
  /\ UNCHANGED workerSupported

RECURSIVE SumIdCounters(_)
SumIdCounters(cs) ==
  IF cs = <<>> THEN 0 ELSE Head(cs).idCounter + SumIdCounters(Tail(cs))

WithinBounds(r) ==
  /\ Len(r.coords) <= MaxCoord
  /\ r.nSerial <= MaxInits
  /\ SumIdCounters(r.coords) <= MaxId

Init ==
  /\ workerSupported \in BOOLEAN
  /\ window = [w \in Which |-> NativeFn(w)]
  /\ coords = <<>>
  /\ workers = <<>>
  /\ instance = 0
  /\ liveUrls = {}
  /\ nUrls = 0
  /\ nSerial = 0

\* the application calls initTabSafeTimers()
CallInitTabSafeTimers ==
  \E outcome \in HostOutcomes :
    LET r == InitTabSafeTimers(Cur, outcome)
    IN WithinBounds(r) /\ Commit(r)

\* the application calls destroyTabSafeTimers()
CallDestroyTabSafeTimers ==
  LET r == DestroyTabSafeTimers(Cur)
  IN Commit(r)

\* the application calls getTabSafeTimers()
CallGetTabSafeTimers ==
  LET r == GetTabSafeTimers(Cur)
  IN Commit(r)

\* the application calls init() on a Coordinator it holds
CallInit ==
  \E c \in 1..Len(coords), outcome \in HostOutcomes :
    LET r == InitCoordinator(Cur, c, outcome)
    IN WithinBounds(r) /\ Commit(r)

\* the application calls destroy() on a Coordinator it holds
CallDestroy ==
  \E c \in 1..Len(coords) :
    LET r == DestroyCoordinator(Cur, c)
    IN Commit(r)

\* the application calls window.setInterval / window.setTimeout
CallStart ==
  \E w \in StartNames, a \in StartCalls :
    LET r == CallFn(Cur, window[w], a)
    IN WithinBounds(r) /\ Commit(r)

\* the application calls window.clearInterval / window.clearTimeout
CallClear ==
  \E w \in ClearNames, id \in IdSpace :
    LET r == CallFn(Cur, window[w], <<id>>)
    IN Commit(r)

\* Coordinator c has been activated, so its four closures exist
HasOverrides(c) == \E w \in 1..Len(workers) : workers[w].owner = c

\* the application calls an override it took from window while c was Active
CallCaptured ==
  \E c \in 1..Len(coords), w \in Which :
    \E a \in IF w \in StartNames THEN StartCalls ELSE {<<id>> : id \in IdSpace} :
      /\ HasOverrides(c)
      /\ LET r == OverrideBody(Cur, c, w, a)
         IN WithinBounds(r) /\ Commit(r)

\* the worker takes the next message of its inbox
WorkerReceive ==
  \E w \in 1..Len(workers) :
    /\ ~workers[w].terminated
    /\ workers[w].inbox # <<>>
    /\ workers' = [workers EXCEPT ![w] =
                     [WorkerOnMessage(@, Head(@.inbox)) EXCEPT !.inbox = Tail(@)]]
    /\ UNCHANGED <<workerSupported, window, coords, instance, liveUrls, nUrls, nSerial>>

\* a repeating native timer of the worker expires
WorkerIntervalFire ==
  \E w \in 1..Len(workers) : \E id \in workers[w].intervalMap :
    /\ ~workers[w].terminated
    /\ Len(workers[w].outbox) < MaxQueue
    /\ workers' = [workers EXCEPT ![w] = WorkerIntervalTick(@, id)]
    /\ UNCHANGED <<workerSupported, window, coords, instance, liveUrls, nUrls, nSerial>>

\* a one-shot native timer of the worker expires
WorkerTimeoutFire ==
  \E w \in 1..Len(workers) : \E id \in workers[w].timeoutMap :
    /\ ~workers[w].terminated
    /\ Len(workers[w].outbox) < MaxQueue
    /\ workers' = [workers EXCEPT ![w] = WorkerTimeoutTick(@, id)]
    /\ UNCHANGED <<workerSupported, window, coords, instance, liveUrls, nUrls, nSerial>>

\* the state in which the oldest tick of worker w has left its queue
TakeTick(s, w) == [s EXCEPT !.workers[w].outbox = Tail(@)]

\* the main thread delivers the oldest tick of a worker to worker.onmessage
\* (also after the worker was terminated: the notification was already queued)
Deliver ==
  \E w \in 1..Len(workers) :
    /\ workers[w].outbox # <<>>
    /\ LET r == OnMessage(TakeTick(Cur, w), workers[w].owner, Head(workers[w].outbox))
       IN WithinBounds(r) /\ Commit(r)

\* worker.onmessage is called by hand with an id that was never registered
SimulateTick ==
  \E c \in 1..Len(coords) : \E id \in IdSpace :
    /\ coords[c].worker # 0
    /\ id > coords[c].idCounter
    /\ LET r == OnMessage(Cur, c, id)
       IN Commit(r)

\* the worker reports an error: worker.onerror runs
WorkerFault ==
  \E w \in 1..Len(workers) :
    /\ ~workers[w].terminated
    /\ LET r == OnError(Cur)
       IN Commit(r)

Next ==
  \/ CallInitTabSafeTimers
  \/ CallDestroyTabSafeTimers
  \/ CallGetTabSafeTimers
  \/ CallInit
  \/ CallDestroy
  \/ CallStart
  \/ CallClear
  \/ CallCaptured
  \/ WorkerReceive
  \/ WorkerIntervalFire
  \/ WorkerTimeoutFire
  \/ Deliver
  \/ SimulateTick
  \/ WorkerFault

Spec == Init /\ [][Next]_vars

\* the application calls window.setInterval / window.setTimeout with a
\* callback that re-enters the library
CallStartReentrant ==
  \E w \in StartNames, a \in ReentrantCalls :
    LET r == CallFn(Cur, window[w], a)
    IN WithinBounds(r) /\ Commit(r)

NextReentrant == Next \/ CallStartReentrant

\* the program with callers that also register re-entrant callbacks
SpecReentrant == Init /\ [][NextReentrant]_vars

(* ------------------------- vocabulary of the claims --------------------- *)
\* The claims below are stated on the operations themselves: in every
\* reachable state, the operation applied to that state (Cur) gives a result
\* r (state, trace, return value, exception) with the property claimed.
Coords == 1..Len(coords)
Active(c) == coords[c].isInitialized
Mapping(c) == coords[c].callbacks
Known(c) == DOMAIN coords[c].callbacks

Invokes(ev) == SelectSeq(ev, LAMBDA e : e[1] = "invoke")
Posts(ev) == SelectSeq(ev, LAMBDA e : e[1] = "postMessage")
Natives(ev) == SelectSeq(ev, LAMBDA e : e[1] = "native")
Reports(ev) == SelectSeq(ev, LAMBDA e : e[1] = "console.error")

\* r, the result of an operation applied to the current state, changed nothing
SameState(r) ==
  /\ r.window = window
  /\ r.coords = coords
  /\ r.workers = workers
  /\ r.instance = instance
  /\ r.liveUrls = liveUrls
  /\ r.nUrls = nUrls
  /\ r.nSerial = nSerial

\* the state r with an empty trace, ready for the next operation
Fresh(r) == [r EXCEPT !.ev = <<>>, !.ret = Undefined, !.threw = "none"]

\* worker w has a tick queued for its Coordinator
TickQueued(w) == workers[w].outbox # <<>>
\* the result of delivering the oldest queued tick of worker w
Delivered(w) == OnMessage(TakeTick(Cur, w), workers[w].owner, Head(workers[w].outbox))

\* slot w of window holds the override of the Active Coordinator c
Installed(c, w) == IsOverride(window[w]) /\ window[w][4] = c /\ Active(c)

\* an id a Coordinator has given out and no longer holds never comes back
RemovedStaysRemoved ==
  \A c \in Coords : \A id \in 1..coords[c].idCounter :
    id \notin Known(c) => id \notin DOMAIN coords'[c].callbacks

\* a TimerEntry is not modified while it is in the mapping
EntriesImmutable ==
  \A c \in Coords : \A id \in Known(c) :
    id \in DOMAIN coords'[c].callbacks => coords'[c].callbacks[id] = Mapping(c)[id]

\* a registration on an Active Coordinator stores the callback and the
\* trailing arguments it was given under the id it returns
RegistrationStoresArguments ==
  \A c \in Coords : \A w \in StartNames : \A a \in StartCalls :
    (Active(c) /\ IsFunction(a[1])) =>
      LET r == OverrideBody(Cur, c, w, a)
          id == r.ret[2]
      IN /\ r.threw = "none"
         /\ r.ret[1] = "id"
         /\ id \in DOMAIN r.coords[c].callbacks
         /\ r.coords[c].callbacks[id].callback = a[1]
         /\ r.coords[c].callbacks[id].args = a[3]
         /\ r.coords[c].callbacks[id].type =
              (IF w = "setTimeout" THEN "timeout" ELSE "interval")

\* a notification for an id that is not in the mapping does nothing at all
AbsentTickIsSilent ==
  \A c \in Coords : \A id \in IdSpace \ Known(c) :
    LET r == OnMessage(Cur, c, id)
    IN r.ev = <<>> /\ r.threw = "none" /\ SameState(r)

\* the function Coordinator c captured for slot w when it was activated
Captured(c, w) == coords[c].native[1][w]

\* the function a chain of bound wrappers finally calls
RECURSIVE Root(_)
Root(f) == IF f[1] = "bound" THEN Root(f[5]) ELSE f

\* no event of the trace ev is a message to worker w
NoPostTo(ev, w) == \A i \in 1..Len(ev) : ev[i][1] = "postMessage" => ev[i][2] # w

\* The numeric value of a delay argument, truncated to an integer: the text
\* read as a decimal literal (white space, sign, digits, fraction, exponent),
\* NaN when the whole text is not one.
RECURSIVE LeadDigits(_)
LeadDigits(txt) ==
  IF txt # <<>> /\ IsDigit(Head(txt)) THEN 1 + LeadDigits(Tail(txt)) ELSE 0

RECURSIVE TrimRight(_)
TrimRight(txt) ==
  IF txt # <<>> /\ txt[Len(txt)] = " " THEN TrimRight(SubSeq(txt, 1, Len(txt) - 1)) ELSE txt

RECURSIVE Pow10(_)
Pow10(n) == IF n = 0 THEN 1 ELSE 10 * Pow10(n - 1)

Drop(txt, n) == SubSeq(txt, n + 1, Len(txt))

TruncatedValue(txt) ==
  LET t == TrimRight(SkipWhite(txt))
      neg == t # <<>> /\ Head(t) = "-"
      body == IF t # <<>> /\ Head(t) \in {"-", "+"} THEN Tail(t) ELSE t
      ni == LeadDigits(body)
      afterInt == Drop(body, ni)
      hasDot == afterInt # <<>> /\ Head(afterInt) = "."
      fracTxt == IF hasDot THEN Tail(afterInt) ELSE afterInt
      nf == IF hasDot THEN LeadDigits(fracTxt) ELSE 0
      afterFrac == Drop(fracTxt, nf)
      hasExp == afterFrac # <<>> /\ Head(afterFrac) \in {"e", "E"}
      expTxt == IF hasExp THEN Tail(afterFrac) ELSE <<>>
      expNeg == expTxt # <<>> /\ Head(expTxt) = "-"
      expBody == IF expTxt # <<>> /\ Head(expTxt) \in {"-", "+"} THEN Tail(expTxt) ELSE expTxt
      ne == LeadDigits(expBody)
      valid == /\ ni + nf > 0
               /\ IF hasExp THEN ne > 0 /\ Drop(expBody, ne) = <<>> ELSE afterFrac = <<>>
      mant == ParseDigits(SubSeq(body, 1, ni) \o SubSeq(fracTxt, 1, nf), 0)
      ex == IF expNeg THEN 0 - ParseDigits(expBody, 0) ELSE ParseDigits(expBody, 0)
      shift == ex - nf
      mag == IF shift >= 0 THEN mant * Pow10(shift) ELSE mant \div Pow10(0 - shift)
  IN IF ~valid THEN NaN ELSE IntVal(IF neg THEN 0 - mag ELSE mag)

\* 0 for an absent, non-numeric or negative delay, else the truncated value
ExpectedDelay(d) ==
  IF d = Absent THEN 0
  ELSE LET v == TruncatedValue(d[2])
       IN IF v = NaN \/ v[2] < 0 THEN 0 ELSE v[2]

(* -------------------------------- claims -------------------------------- *)
\* C1 (state part): a notification for a Timeout entry invokes its callback
\* exactly once, with the entry's arguments, raises nothing and removes the id.
C1_TimeoutTick ==
  \A c \in Coords : \A id \in Known(c) :
    Mapping(c)[id].type = "timeout" =>
      LET e == Mapping(c)[id]
          r == OnMessage(Cur, c, id)
      IN /\ Invokes(r.ev) = << <<"invoke", c, id, e.callback, e.args>> >>
         /\ r.threw = "none"
         /\ r.coords[c].callbacks = MapDelete(Mapping(c), id)

\* C1: a timeout registered on an Active Coordinator keeps the callback and
\* the arguments of its registration; the first notification delivered for its
\* id invokes that callback exactly once with those arguments and removes the
\* id; the id never returns to the mapping and a notification for an id that
\* is not in the mapping invokes nothing.
C1_TimeoutFiresOnce ==
  /\ [](RegistrationStoresArguments /\ C1_TimeoutTick /\ AbsentTickIsSilent)
  /\ [][EntriesImmutable /\ RemovedStaysRemoved]_vars

\* C1 witness: the worker's tick for a registered timeout with the arguments
\* (1, 2, 3) is delivered to its Active Coordinator: the callback is invoked
\* once with them and the id leaves the mapping.
C1_Witness ==
  \E w \in 1..Len(workers) :
    /\ TickQueued(w)
    /\ LET c == workers[w].owner
           id == Head(workers[w].outbox)
           r == Delivered(w)
       IN /\ Active(c)
          /\ id \in Known(c)
          /\ Mapping(c)[id].type = "timeout"
          /\ Invokes(r.ev) = << <<"invoke", c, id, "cbOk", <<1, 2, 3>> >> >>
          /\ id \notin DOMAIN r.coords[c].callbacks

\* C2 (state part): a notification for an Interval entry invokes its callback
\* exactly once with the entry's arguments and leaves the entry in the
\* mapping, and so does the notification after it.
C2_IntervalTick ==
  \A c \in Coords : \A id \in Known(c) :
    Mapping(c)[id].type = "interval" =>
      LET e == Mapping(c)[id]
          r == OnMessage(Cur, c, id)
          r2 == OnMessage(Fresh(r), c, id)
      IN /\ Invokes(r.ev) = << <<"invoke", c, id, e.callback, e.args>> >>
         /\ r.threw = "none"
         /\ r.coords[c].callbacks = Mapping(c)
         /\ Invokes(r2.ev) = Invokes(r.ev)
         /\ r2.coords[c].callbacks = Mapping(c)

\* an Interval entry leaves the mapping only in a step that deactivates its
\* Coordinator or posts a cancellation message for its id
C2_IntervalLeavesOnlyByCancel ==
  \A c \in Coords : \A id \in Known(c) :
    (Mapping(c)[id].type = "interval" /\ id \notin DOMAIN coords'[c].callbacks) =>
       \/ Active(c) /\ ~coords'[c].isInitialized
       \/ /\ coords[c].worker # 0
          /\ \E cmd \in ClearNames :
               workers'[coords[c].worker].inbox =
                 Append(workers[coords[c].worker].inbox, <<cmd, id>>)

\* C2: every notification delivered for a registered interval invokes its
\* callback exactly once (N notifications, N invocations) and the id stays in
\* the mapping until it is cancelled or the Coordinator is deactivated.
C2_IntervalFiresEveryTick ==
  /\ [](RegistrationStoresArguments /\ C2_IntervalTick)
  /\ [][EntriesImmutable /\ C2_IntervalLeavesOnlyByCancel]_vars

\* C2 witness: the worker's tick for a registered interval is delivered: the
\* callback is invoked, the entry stays, and the interval is still armed in
\* the worker, which will tick again.
C2_Witness ==
  \E w \in 1..Len(workers) :
    /\ TickQueued(w)
    /\ LET c == workers[w].owner
           id == Head(workers[w].outbox)
           r == Delivered(w)
       IN /\ Active(c)
          /\ id \in Known(c)
          /\ Mapping(c)[id].type = "interval"
          /\ Len(Invokes(r.ev)) = 1
          /\ id \in DOMAIN r.coords[c].callbacks
          /\ id \in workers[w].intervalMap

\* C3 (state part): a cancel call for a known id removes it from the mapping
\* and raises nothing.
C3_CancelRemoves ==
  \A c \in Coords : \A id \in Known(c) : \A w \in ClearNames :
    Active(c) =>
      LET r == OverrideBody(Cur, c, w, <<id>>)
      IN r.threw = "none" /\ id \notin DOMAIN r.coords[c].callbacks

\* C3: after a cancel call for a known id, the id is out of the mapping for
\* good, and a notification for an id that is not in the mapping (cancelled
\* with the notification in flight, or never registered) invokes nothing and
\* raises nothing.
C3_CancelledNeverFires ==
  /\ [](C3_CancelRemoves /\ AbsentTickIsSilent)
  /\ [][RemovedStaysRemoved]_vars

\* C3 witness: the tick of an interval that was cancelled while the tick was
\* in flight (the worker has not even taken the cancel message yet) is
\* delivered to the Active Coordinator, and nothing is invoked.
C3_Witness ==
  \E w \in 1..Len(workers) :
    /\ TickQueued(w)
    /\ LET c == workers[w].owner
           id == Head(workers[w].outbox)
           r == Delivered(w)
       IN /\ Active(c)
          /\ id <= coords[c].idCounter
          /\ id \notin Known(c)
          /\ id \in workers[w].intervalMap
          /\ workers[w].inbox = << <<"clearInterval", id>> >>
          /\ r.ev = <<>>
          /\ r.threw = "none"

\* C4: activate() followed by deactivate() leaves in each of the four global
\* slots the very function object that was there before activate().
C4_RoundTripIdentical ==
  \A c \in Coords : \A outcome \in HostOutcomes :
    ~Active(c) =>
      LET a == InitCoordinator(Cur, c, outcome)
          d == DestroyCoordinator(Fresh(a), c)
      IN a.ret = Bool(TRUE) => \A w \in Which : d.window[w] = window[w]

\* C5: getTabSafeTimers() is non-null only if the instance it returns is Active.
C5_NullWhenNotInitialized ==
  LET r == GetTabSafeTimers(Cur)
  IN r.ret[1] = "instance" => Active(r.ret[2])

\* C6: initTabSafeTimers() throws whenever the host cannot give a worker, and
\* it never returns an instance that is not Active.
C6_InitThrowsOnFailure ==
  \A outcome \in HostOutcomes :
    LET r == InitTabSafeTimers(Cur, outcome)
    IN /\ (~workerSupported \/ outcome \in FailOutcomes) => r.threw = "Error"
       /\ r.threw = "none" =>
            r.ret[1] = "instance" /\ r.coords[r.ret[2]].isInitialized

\* C7: init() on an Active Coordinator returns false, raises nothing, creates
\* no worker and no function object, and leaves every part of the state
\* (snapshot, global slots, mapping, id counter) as it was.
C7_InitIdempotent ==
  \A c \in Coords : \A outcome \in HostOutcomes :
    Active(c) =>
      LET r == InitCoordinator(Cur, c, outcome)
      IN /\ r.ret = Bool(FALSE)
         /\ r.threw = "none"
         /\ r.ev = <<>>
         /\ SameState(r)

\* C7 witness: init() is called on an Active Coordinator that holds a timer
\* and whose overrides are installed; it returns false.
C7_Witness ==
  \E c \in Coords :
    /\ Installed(c, "setTimeout")
    /\ Known(c) # {}
    /\ InitCoordinator(Cur, c, "blob").ret = Bool(FALSE)

\* C8: a start call on an Active Coordinator with a callback that is not a
\* function raises TypeError, sends nothing and leaves the state as it was
\* (no id allocated, no entry stored).
C8_ValidationError ==
  \A c \in Coords : \A w \in StartNames : \A a \in StartCalls :
    (Active(c) /\ ~IsFunction(a[1])) =>
      LET r == OverrideBody(Cur, c, w, a)
      IN /\ r.threw = "TypeError"
         /\ r.ev = <<>>
         /\ SameState(r)

\* C8 witness: window.setInterval, overridden by an Active Coordinator that
\* could still register a timer, is called with a non-function and raises.
C8_Witness ==
  \E c \in Coords : \E a \in StartCalls :
    /\ Installed(c, "setInterval")
    /\ a[1] \in NonFunctions
    /\ SumIdCounters(coords) < MaxId
    /\ CallFn(Cur, window["setInterval"], a).threw = "TypeError"

\* C9: a notification whose callback raises is handled without raising: the
\* error is reported, nothing else in the mapping is touched, and a
\* notification delivered next for another registered timer invokes that
\* timer's callback with that timer's arguments.
C9_FaultIsolation ==
  \A c \in Coords : \A id \in Known(c) :
    Mapping(c)[id].callback = "cbThrow" =>
      LET r == OnMessage(Cur, c, id)
      IN /\ r.threw = "none"
         /\ Len(Reports(r.ev)) = 1
         /\ \A id2 \in Known(c) \ {id} :
              /\ id2 \in DOMAIN r.coords[c].callbacks
              /\ r.coords[c].callbacks[id2] = Mapping(c)[id2]
              /\ LET e2 == Mapping(c)[id2]
                     r2 == OnMessage(Fresh(r), c, id2)
                 IN /\ Invokes(r2.ev) = << <<"invoke", c, id2, e2.callback, e2.args>> >>
                    /\ r2.threw = "none"

\* C9 witness: the tick of a timer whose callback raises is delivered while a
\* second timer with the arguments (1, 2, 3) is registered; the error is
\* reported and the second timer's notification then invokes its callback.
C9_Witness ==
  \E w \in 1..Len(workers) :
    /\ TickQueued(w)
    /\ LET c == workers[w].owner
           id == Head(workers[w].outbox)
           r == Delivered(w)
       IN /\ id \in Known(c)
          /\ Mapping(c)[id].callback = "cbThrow"
          /\ Len(Reports(r.ev)) = 1
          /\ \E id2 \in Known(c) \ {id} :
               Invokes(OnMessage(Fresh(r), c, id2).ev) =
                 << <<"invoke", c, id2, "cbOk", <<1, 2, 3>> >> >>

\* C10: a cancel call for a known id on an Active Coordinator removes exactly
\* that entry, posts exactly one cancellation message carrying the id to the
\* Coordinator's worker, and calls no native function.
C10_CancelKnown ==
  \A c \in Coords : \A id \in Known(c) : \A w \in ClearNames :
    Active(c) =>
      LET r == OverrideBody(Cur, c, w, <<id>>)
      IN /\ r.threw = "none"
         /\ r.coords[c].callbacks = MapDelete(Mapping(c), id)
         /\ \A c2 \in Coords \ {c} : r.coords[c2] = coords[c2]
         /\ Len(Posts(r.ev)) = 1
         /\ Posts(r.ev)[1][2] = coords[c].worker
         /\ Posts(r.ev)[1][3][1] \in ClearNames
         /\ Posts(r.ev)[1][3][2] = id
         /\ r.workers[coords[c].worker].inbox =
              Append(workers[coords[c].worker].inbox, Posts(r.ev)[1][3])
         /\ Natives(r.ev) = <<>>

\* C10 witness: window.clearTimeout, overridden by an Active Coordinator that
\* holds two timers, is called with the id of one of them: that entry goes,
\* the other stays, and one message is posted.
C10_Witness ==
  \E c \in Coords : \E id \in Known(c) :
    /\ Installed(c, "clearTimeout")
    /\ Known(c) \ {id} # {}
    /\ LET r == CallFn(Cur, window["clearTimeout"], <<id>>)
       IN /\ DOMAIN r.coords[c].callbacks = Known(c) \ {id}
          /\ Len(Posts(r.ev)) = 1

\* C11: a cancel call on an Active Coordinator with an id that is not in its
\* mapping is exactly one call of the captured function of the same kind with
\* that id: the Coordinator itself is unchanged and its worker gets no
\* message; when the captured function is (a bound wrapper of) the native
\* one, the native function is called once with the id and nothing else
\* happens.
C11_FallbackCancel ==
  \A c \in Coords : \A w \in ClearNames : \A id \in IdSpace \ Known(c) :
    Active(c) =>
      LET r == OverrideBody(Cur, c, w, <<id>>)
      IN /\ r = CallFn(Cur, Captured(c, w), <<id>>)
         /\ r.coords[c] = coords[c]
         /\ NoPostTo(r.ev, coords[c].worker)
         /\ Root(Captured(c, w)) = NativeFn(w) =>
              /\ r.ev = << <<"native", w, <<id>> >> >>
              /\ r.threw = "none"
              /\ SameState(r)

\* C11 witness: window.clearTimeout, overridden by an Active Coordinator, is
\* called with an id that Coordinator gave out and no longer holds, while it
\* holds another timer: the native clearTimeout is called once with the id.
C11_Witness ==
  \E c \in Coords : \E id \in 1..coords[c].idCounter :
    /\ Installed(c, "clearTimeout")
    /\ id \notin Known(c)
    /\ Known(c) # {}
    /\ LET r == CallFn(Cur, window["clearTimeout"], <<id>>)
       IN /\ r.ev = << <<"native", "clearTimeout", <<id>> >> >>
          /\ r.coords = coords

\* C12 (state part): a registration on an Active Coordinator whose counter is
\* n returns the id n + 1 and leaves the counter at n + 1; every id in the
\* mapping is between 1 and n, so n + 1 is positive, larger than every id
\* returned before and not in use.
C12_NextId ==
  \A c \in Coords :
    /\ Known(c) \subseteq 1..coords[c].idCounter
    /\ \A w \in StartNames : \A a \in StartCalls :
         (Active(c) /\ IsFunction(a[1])) =>
           LET r == OverrideBody(Cur, c, w, a)
           IN /\ r.ret = IdVal(coords[c].idCounter + 1)
              /\ r.coords[c].idCounter = coords[c].idCounter + 1

\* C12 (step part): the counter of a Coordinator starts at 0, never goes
\* down (not when the Coordinator is deactivated or activated again either)
\* and goes up by one only in a step that stores the entry of the new id.
C12_CounterCountsRegistrations ==
  /\ Len(coords') >= Len(coords)
  /\ \A c \in (Len(coords) + 1)..Len(coords') : coords'[c].idCounter = 0
  /\ \A c \in Coords :
       \/ coords'[c].idCounter = coords[c].idCounter
       \/ /\ coords'[c].idCounter = coords[c].idCounter + 1
          /\ coords'[c].idCounter \in DOMAIN coords'[c].callbacks

\* C12: on one Coordinator the k-th successful registration returns the id k,
\* over the whole lifetime of the object: ids are positive, strictly
\* increasing in call order and never reused by that Coordinator.
C12_KthRegistrationReturnsK ==
  /\ []C12_NextId
  /\ [][C12_CounterCountsRegistrations]_vars

\* C12 witness: a Coordinator registered timer 1 during its first activation
\* (the tick of timer 1 is still queued from its first, terminated worker),
\* was deactivated and activated again with a second worker and has
\* registered nothing since; a registration now returns the id 2.
C12_Witness ==
  \E c \in Coords : \E w1, w2 \in 1..Len(workers) :
    /\ w1 # w2
    /\ workers[w1].owner = c /\ workers[w1].terminated /\ workers[w1].outbox = <<1>>
    /\ coords[c].worker = w2
    /\ Active(c)
    /\ coords[c].idCounter = 1
    /\ OverrideBody(Cur, c, "setTimeout", <<"cbOk", NumArg(<<"7">>), <<1, 2, 3>> >>).ret
         = IdVal(2)

\* C13: an id a Coordinator returned is never returned by a Coordinator
\* constructed later, and a cancel call with the id of the earlier Coordinator
\* removes no timer of the later one.
C13_IdsProcessUnique ==
  \A c1, c2 \in Coords :
    c1 < c2 =>
      \A id \in 1..coords[c1].idCounter :
        /\ id \notin 1..coords[c2].idCounter
        /\ \A w \in ClearNames :
             CallFn(Cur, window[w], <<id>>).coords[c2].callbacks = Mapping(c2)

\* C14: destroy() on an Active Coordinator posts to its worker one
\* cancellation message for each id of the mapping, in the order of the
\* mapping, and nothing else; then terminates the worker, once; it raises
\* nothing, and afterwards the mapping is empty, the worker is terminated and
\* not referenced, the four global slots hold the snapshot and the
\* Coordinator is not Active.
C14_Deactivation ==
  \A c \in Coords :
    Active(c) =>
      LET r == DestroyCoordinator(Cur, c)
          wk == coords[c].worker
          ids == Ascending(Known(c))
          n == Len(ids)
      IN /\ r.threw = "none"
         /\ wk # 0
         /\ Len(Posts(r.ev)) = n
         /\ \A i \in 1..n :
              /\ r.ev[i][1] = "postMessage"
              /\ r.ev[i][2] = wk
              /\ r.ev[i][3][1] \in ClearNames
              /\ r.ev[i][3][2] = ids[i]
         /\ r.ev[n + 1] = <<"terminate", wk>>
         /\ \A i \in 1..Len(r.ev) : r.ev[i][1] = "terminate" => i = n + 1
         /\ r.coords[c].callbacks = EmptyMap
         /\ r.workers[wk].terminated
         /\ r.coords[c].worker = 0
         /\ r.window = coords[c].native[1]
         /\ ~r.coords[c].isInitialized

\* C14 witness: destroy() on an Active Coordinator that holds the timers 1 and
\* 2 and whose overrides are installed: two messages are posted, the worker
\* is terminated and the slots no longer hold the overrides.
C14_Witness ==
  \E c \in Coords :
    /\ Installed(c, "setTimeout")
    /\ Known(c) = {1, 2}
    /\ LET r == DestroyCoordinator(Cur, c)
       IN /\ Len(Posts(r.ev)) = 2
          /\ r.workers[coords[c].worker].terminated
          /\ ~IsOverride(r.window["setTimeout"])

\* C15: whenever no Coordinator is Active, every blob URL that was created
\* has been revoked; and destroy() of the only Active Coordinator leaves no
\* blob URL unrevoked.
C15_NoHandleLeft ==
  /\ (\A c \in Coords : ~Active(c)) => liveUrls = {}
  /\ \A c \in Coords :
       (Active(c) /\ \A c2 \in Coords \ {c} : ~Active(c2)) =>
         DestroyCoordinator(Cur, c).liveUrls = {}

\* C16: an override of a Coordinator that is not Active, called with any
\* arguments, is exactly one call of the function the Coordinator captured
\* for that slot, with the same arguments (an absent delay arrives as the
\* declared default 0), and returns what that call returns: the Coordinator
\* is unchanged (no id allocated, no entry stored or removed) and no message
\* goes to a worker it created; when the captured function is (a bound
\* wrapper of) the native one, the native function is called once and nothing
\* else happens.
C16_DegradesToNative ==
  \A c \in Coords : \A w \in Which :
    \A a \in IF w \in StartNames THEN StartCalls ELSE {<<id>> : id \in IdSpace} :
      (HasOverrides(c) /\ ~Active(c)) =>
        LET r == OverrideBody(Cur, c, w, a)
        IN /\ r = CallFn(Cur, Captured(c, w), Params(w, a))
           /\ r.coords[c] = coords[c]
           /\ \A wk \in 1..Len(workers) : workers[wk].owner = c => NoPostTo(r.ev, wk)
           /\ Root(Captured(c, w)) = NativeFn(w) =>
                /\ r.ev = << <<"native", w, Params(w, a)>> >>
                /\ r.ret = (IF w \in StartNames THEN NativeHandle ELSE Undefined)
                /\ r.threw = "none"
                /\ SameState(r)

\* C16 witness: the setTimeout override of a deactivated Coordinator is called
\* while a later Coordinator is Active and holds a timer: the native
\* setTimeout is called with the callback, the delay and the arguments
\* (1, 2, 3), and the Active Coordinator registers nothing.
C16_Witness ==
  \E c, c2 \in Coords :
    /\ HasOverrides(c) /\ ~Active(c)
    /\ Installed(c2, "setTimeout")
    /\ Known(c2) # {}
    /\ LET a == <<"cbOk", NumArg(<<"7">>), <<1, 2, 3>> >>
           r == OverrideBody(Cur, c, "setTimeout", a)
       IN /\ r.ev = << <<"native", "setTimeout", a>> >>
          /\ r.ret = NativeHandle
          /\ r.coords = coords

\* C17: for every delay argument, a registration on an Active Coordinator
\* stores in the entry and sends in the start message the same delay: 0 for
\* an absent, non-numeric or negative input, else the input truncated to an
\* integer.
C17_DelaySanitized ==
  \A c \in Coords : \A w \in StartNames : \A d \in DelayInputs :
    Active(c) =>
      LET r == OverrideBody(Cur, c, w, <<"cbOk", d, <<>> >>)
          id == r.ret[2]
          msg == Posts(r.ev)[1][3]
      IN /\ r.ret[1] = "id"
         /\ Len(Posts(r.ev)) = 1
         /\ r.coords[c].callbacks[id].delay = msg[3]
         /\ msg[3] >= 0
         /\ msg[3] = ExpectedDelay(d)

\* the part of C17 the code satisfies: the stored and the sent delay are the
\* same non-negative integer, and it is the expected one for every input
\* that is absent or a plain decimal integer or fraction, or has no digits
C17_AgreesOnPlainInputs ==
  \A c \in Coords : \A w \in StartNames : \A d \in DelayInputs :
    Active(c) =>
      LET r == OverrideBody(Cur, c, w, <<"cbOk", d, <<>> >>)
          msg == Posts(r.ev)[1][3]
      IN /\ r.coords[c].callbacks[r.ret[2]].delay = msg[3]
         /\ msg[3] >= 0
         /\ (d = Absent \/ \A i \in 1..Len(d[2]) : d[2][i] \notin {"e", "p", "x"}) =>
              msg[3] = ExpectedDelay(d)

\* C18: worker.onerror of a live worker only reports the error: it raises
\* nothing and changes nothing (the Coordinator stays Active, mapping, counter
\* and global slots are as before), and a notification delivered next for any
\* registered timer does what it would have done without the error.
C18_WorkerErrorIsReportedOnly ==
  \A w \in 1..Len(workers) :
    ~workers[w].terminated =>
      LET c == workers[w].owner
          r == OnError(Cur)
      IN /\ Active(c)
         /\ r.threw = "none"
         /\ r.ev = << <<"console.error", "worker">> >>
         /\ SameState(r)
         /\ \A id \in Known(c) :
              /\ OnMessage(Fresh(r), c, id) = OnMessage(Cur, c, id)
              /\ Len(Invokes(OnMessage(Fresh(r), c, id).ev)) = 1

\* C18 witness: the worker of an Active Coordinator whose overrides are
\* installed reports an error while its tick for a registered timer is
\* queued; the error is logged and the tick, delivered next, invokes the
\* callback.
C18_Witness ==
  \E w \in 1..Len(workers) :
    /\ ~workers[w].terminated
    /\ TickQueued(w)
    /\ LET c == workers[w].owner
           id == Head(workers[w].outbox)
           r == OnError(Cur)
       IN /\ Installed(c, "setInterval")
          /\ id \in Known(c)
          /\ Len(Reports(r.ev)) = 1
          /\ r.coords[c].isInitialized
          /\ Len(Invokes(OnMessage(TakeTick(Fresh(r), w), c, id).ev)) = 1

\* C19 (first part): initTabSafeTimers() while the singleton is Active
\* returns the singleton, raises nothing, creates nothing and changes nothing.
C19_InitReturnsExisting ==
  \A outcome \in HostOutcomes :
    (instance # 0 /\ Active(instance)) =>
      LET r == InitTabSafeTimers(Cur, outcome)
      IN /\ r.ret = InstanceVal(instance)
         /\ r.threw = "none"
         /\ r.ev = <<>>
         /\ SameState(r)

\* C19 (second part): destroyTabSafeTimers() leaves the singleton absent, and
\* the initTabSafeTimers() after it succeeds whenever the host gives a worker
\* and then returns a Coordinator that did not exist before, is Active, is the
\* singleton, has an empty mapping and has its overrides in the global slots.
C19_InitAfterDestroyIsFresh ==
  LET d == DestroyTabSafeTimers(Cur)
  IN /\ d.threw = "none"
     /\ d.instance = 0
     /\ \A outcome \in HostOutcomes :
          LET r == InitTabSafeTimers(Fresh(d), outcome)
              new == Len(coords) + 1
          IN /\ (workerSupported /\ outcome \notin FailOutcomes) => r.threw = "none"
             /\ r.threw = "none" =>
                  /\ r.ret = InstanceVal(new)
                  /\ r.instance = new
                  /\ Len(r.coords) = new
                  /\ r.coords[new].isInitialized
                  /\ r.coords[new].callbacks = EmptyMap
                  /\ \A w \in Which : IsOverride(r.window[w]) /\ r.window[w][4] = new

\* C19: initTabSafeTimers() on an Active singleton returns it and changes
\* nothing; after destroyTabSafeTimers() the singleton is absent and the next
\* initTabSafeTimers() returns a different, freshly activated Coordinator with
\* an empty mapping.
C19_SingletonAccessor == C19_InitReturnsExisting /\ C19_InitAfterDestroyIsFresh

\* C19 witness: the singleton is the second Coordinator, Active with a timer
\* registered, the first one having been discarded by destroyTabSafeTimers();
\* initTabSafeTimers() returns the second one again, and after
\* destroyTabSafeTimers() it returns a third.
C19_Witness ==
  /\ instance = 2
  /\ Active(2) /\ ~Active(1)
  /\ Known(2) # {}
  /\ InitTabSafeTimers(Cur, "blob").ret = InstanceVal(2)
  /\ InitTabSafeTimers(Fresh(DestroyTabSafeTimers(Cur)), "blob").ret = InstanceVal(3)

\* what C20 says a failed activation of Coordinator c with result r leaves
\* alone: c is not Active, the global slots are as before, no worker was
\* created and c references none; mapping and counter are as before. (The
\* snapshot field and the blob URL field of c are not part of this.)
LeftInactive(r, c) ==
  /\ r.threw = "Error"
  /\ ~r.coords[c].isInitialized
  /\ r.window = window
  /\ r.workers = workers
  /\ r.coords[c].worker = 0
  /\ r.coords[c].callbacks = EmptyMap
  /\ \A c2 \in Coords \ {c} : r.coords[c2] = coords[c2]

\* C20: init() on a Coordinator that is not Active raises exactly when the
\* host has no Worker or both worker constructions fail, and then the
\* Coordinator stays Inactive, the four global slots are unchanged and no
\* worker exists or is referenced; the same holds for the Coordinator that
\* initTabSafeTimers() constructs.
C20_FailedActivation ==
  /\ \A c \in Coords : \A outcome \in HostOutcomes :
       ~Active(c) =>
         LET r == InitCoordinator(Cur, c, outcome)
         IN /\ r.threw # "none" <=> (~workerSupported \/ outcome \in FailOutcomes)
            /\ r.threw # "none" =>
                 /\ LeftInactive(r, c)
                 /\ r.coords[c].idCounter = coords[c].idCounter
                 /\ r.instance = instance
  /\ \A outcome \in HostOutcomes :
       instance = 0 =>
         LET r == InitTabSafeTimers(Cur, outcome)
         IN r.threw # "none" => LeftInactive(r, Len(coords) + 1)

\* C20 witness: init() is called on a Coordinator that was Active before and
\* was deactivated, in a host where the blob URL is created and both worker
\* constructions fail, while another Coordinator is Active with its overrides
\* installed: the call raises and the slots still hold those overrides.
C20_Witness ==
  \E c, c2 \in Coords :
    /\ HasOverrides(c) /\ ~Active(c)
    /\ Installed(c2, "setTimeout")
    /\ LET r == InitCoordinator(Cur, c, "failWithUrl")
       IN /\ r.threw = "Error"
          /\ r.window = window
          /\ r.liveUrls # liveUrls

\* C21: destroy() on a Coordinator that is not Active raises nothing, calls
\* nothing on the host (no message, no terminate, no revoke) and changes
\* nothing; destroyTabSafeTimers() with no singleton does the same.
C21_DestroyInactiveIsNoOp ==
  /\ \A c \in Coords :
       ~Active(c) =>
         LET r == DestroyCoordinator(Cur, c)
         IN r.threw = "none" /\ r.ev = <<>> /\ SameState(r)
  /\ instance = 0 =>
       LET r == DestroyTabSafeTimers(Cur)
       IN r.threw = "none" /\ r.ev = <<>> /\ SameState(r)

\* C21 witness: destroy() is called on a Coordinator that was deactivated
\* before, while another
\* Coordinator is Active with its overrides installed and a timer registered:
\* nothing is called and the overrides stay installed.
C21_Witness ==
  \E c, c2 \in Coords :
    /\ HasOverrides(c) /\ ~Active(c)
    /\ Installed(c2, "clearInterval")
    /\ Known(c2) # {}
    /\ LET r == DestroyCoordinator(Cur, c)
       IN r.ev = <<>> /\ r.window = window /\ r.coords = coords

\* the ids that have a timer armed in worker w
Armed(w) == workers[w].intervalMap \cup workers[w].timeoutMap

\* C22: for the live worker of an Active Coordinator, once the worker has
\* read every message sent to it and the Coordinator has handled every
\* notification, the ids armed in the worker are the ids of the mapping.
C22_SchedulerConsistent ==
  \A c \in Coords :
    (Active(c) /\ coords[c].worker # 0) =>
      LET w == coords[c].worker
      IN (workers[w].inbox = <<>> /\ workers[w].outbox = <<>>) => Armed(w) = Known(c)

\* the messages for id in the sequence q whose command is in cmds
MessagesFor(q, cmds, id) == SelectSeq(q, LAMBDA m : m[1] \in cmds /\ m[2] = id)

\* C23 (state part): for every id in the mapping of an Active Coordinator, no
\* cancellation message for it is on its way to the worker, and its one start
\* message, of the entry's kind and with the entry's delay, is either still
\* unread (and then the worker has armed and sent nothing for it) or was
\* read: then an interval is armed, and a timeout is armed or its
\* notification is on its way and not yet handled.
C23_EntryHasOneStart ==
  \A c \in Coords : \A id \in Known(c) :
    LET w == coords[c].worker
        e == Mapping(c)[id]
        starts == MessagesFor(workers[w].inbox, StartNames, id)
        ticks == SelectSeq(workers[w].outbox, LAMBDA x : x = id)
    IN /\ Active(c) /\ w # 0 /\ ~workers[w].terminated
       /\ MessagesFor(workers[w].inbox, ClearNames, id) = <<>>
       /\ \/ /\ starts = << <<StartCommand(e.type), id, e.delay>> >>
             /\ id \notin Armed(w)
             /\ ticks = <<>>
          \/ /\ starts = <<>>
             /\ e.type = "interval"
             /\ id \in workers[w].intervalMap /\ id \notin workers[w].timeoutMap
          \/ /\ starts = <<>>
             /\ e.type = "timeout"
             /\ id \notin workers[w].intervalMap
             /\ (id \in workers[w].timeoutMap) # (ticks = <<id>>)

\* the messages a step adds to the inbox of worker w
Appended(w) ==
  LET old == workers[w].inbox
      new == workers'[w].inbox
  IN IF Len(new) > Len(old) /\ SubSeq(new, 1, Len(old)) = old
       THEN SubSeq(new, Len(old) + 1, Len(new))
       ELSE <<>>

\* C23 (step part): a start message for an id is sent only in the step that
\* puts the id, never used before, into the mapping; a cancellation message
\* for an id is sent only in a step that takes the id out of the mapping, so
\* never before its start message and never for an id that stays.
C23_MessagesFollowMapping ==
  \A w \in 1..Len(workers) :
    LET c == workers[w].owner
        new == Appended(w)
    IN \A i \in 1..Len(new) :
         LET id == new[i][2]
         IN IF new[i][1] \in StartNames
              THEN /\ id = coords[c].idCounter + 1
                   /\ id \in DOMAIN coords'[c].callbacks
                   /\ new[i] = <<StartCommand(coords'[c].callbacks[id].type), id,
                                 coords'[c].callbacks[id].delay>>
              ELSE /\ id \in Known(c)
                   /\ id \notin DOMAIN coords'[c].callbacks

\* C23: every id in the mapping has exactly one start message sent for it, of
\* the entry's kind and delay, no cancellation message sent for it and, for a
\* timeout, no notification handled yet; no cancel precedes the start.
C23_MappingMatchesMessages ==
  /\ []C23_EntryHasOneStart
  /\ [][C23_MessagesFollowMapping /\ RemovedStaysRemoved /\ EntriesImmutable]_vars

\* C23 witness: an Active Coordinator holds a timeout whose start message the
\* worker has read and armed, and an interval whose start message is still
\* unread.
C23_Witness ==
  \E c \in Coords : \E id1, id2 \in Known(c) :
    LET w == coords[c].worker
    IN /\ Mapping(c)[id1].type = "timeout"
       /\ id1 \in workers[w].timeoutMap
       /\ Mapping(c)[id2].type = "interval"
       /\ workers[w].inbox = << <<"setInterval", id2, Mapping(c)[id2].delay>> >>

\* the cancel command of the kind of entry e
CancelCommand(e) == IF e.type = "interval" THEN "clearInterval" ELSE "clearTimeout"

\* C24: the cancellation message sent for an id of the mapping, by either
\* clear function or by destroy(), has the command of the entry's kind, which
\* is the kind of the start message sent for the id.
C24_CancelKindMatchesStart ==
  \A c \in Coords : \A id \in Known(c) :
    Active(c) =>
      /\ \A w \in ClearNames :
           LET r == OverrideBody(Cur, c, w, <<id>>)
           IN \A i \in 1..Len(Posts(r.ev)) :
                Posts(r.ev)[i][3][1] = CancelCommand(Mapping(c)[id])
      /\ LET d == DestroyCoordinator(Cur, c)
         IN \A i \in 1..Len(Posts(d.ev)) :
              Posts(d.ev)[i][3][2] = id =>
                Posts(d.ev)[i][3][1] = CancelCommand(Mapping(c)[id])

\* the tick a step adds to the outbox of worker w: <<id>>, or <<>> if none
NewTicks(w) ==
  LET old == workers[w].outbox
      new == workers'[w].outbox
  IN IF Len(new) > Len(old) /\ SubSeq(new, 1, Len(old)) = old
       THEN SubSeq(new, Len(old) + 1, Len(new))
       ELSE <<>>

\* a worker sends a tick only for an id it has armed
TicksOnlyWhenArmed ==
  \A w \in 1..Len(workers) : \A i \in 1..Len(NewTicks(w)) : NewTicks(w)[i] \in Armed(w)

\* C25 (state part): when the one-shot timer of an armed id expires the
\* worker sends one tick for it and the id leaves timeoutMap; when the worker
\* reads clearTimeout for an armed id the id leaves timeoutMap and nothing is
\* sent.
C25_TimeoutDisarmedByTickOrCancel ==
  \A w \in 1..Len(workers) : \A id \in workers[w].timeoutMap :
    LET wk == workers[w]
        fired == WorkerTimeoutTick(wk, id)
        cleared == WorkerOnMessage(wk, <<"clearTimeout", id>>)
    IN /\ fired.outbox = Append(wk.outbox, id)
       /\ fired.timeoutMap = wk.timeoutMap \ {id}
       /\ cleared.outbox = wk.outbox
       /\ cleared.timeoutMap = wk.timeoutMap \ {id}

\* C25 (step part): a tick is sent only for an armed id; a tick for an id
\* armed as a timeout disarms it in the same step; and an id is armed as a
\* timeout only by reading its setTimeout message.
C25_OneShotSteps ==
  /\ TicksOnlyWhenArmed
  /\ \A w \in 1..Len(workers) :
       /\ \A i \in 1..Len(NewTicks(w)) :
            NewTicks(w)[i] \notin workers[w].intervalMap =>
              NewTicks(w)[i] \notin workers'[w].timeoutMap
       /\ \A id \in workers'[w].timeoutMap \ workers[w].timeoutMap :
            /\ workers[w].inbox # <<>>
            /\ Head(workers[w].inbox)[1] = "setTimeout"
            /\ Head(workers[w].inbox)[2] = id
            /\ workers'[w].inbox = Tail(workers[w].inbox)

\* C25: for a setTimeout message it has read, the worker sends at most one
\* tick, after which the id is not in timeoutMap; if it reads clearTimeout for
\* the id first, it sends none.
C25_OneShotProtocol ==
  /\ []C25_TimeoutDisarmedByTickOrCancel
  /\ [][C25_OneShotSteps]_vars

\* C25 witness: a live worker has the timeout id armed, has sent nothing and
\* has the clearTimeout message for id unread: the timer may expire first
\* (one tick, id disarmed) or the message may be read first (id disarmed, no
\* tick).
C25_Witness ==
  \E w \in 1..Len(workers) : \E id \in workers[w].timeoutMap :
    /\ ~workers[w].terminated
    /\ workers[w].outbox = <<>>
    /\ workers[w].inbox = << <<"clearTimeout", id>> >>
    /\ WorkerTimeoutTick(workers[w], id).outbox = <<id>>
    /\ id \notin WorkerTimeoutTick(workers[w], id).timeoutMap
    /\ id \notin WorkerOnMessage(workers[w], Head(workers[w].inbox)).timeoutMap

\* C26 (state part): reading clearInterval for an id removes it from
\* intervalMap and touches nothing else; reading a cancel message of either
\* kind for an id that is not in the map of that kind changes nothing at all.
C26_CancelInWorker ==
  \A w \in 1..Len(workers) : \A id \in IdSpace :
    LET wk == workers[w]
        ci == WorkerOnMessage(wk, <<"clearInterval", id>>)
        ct == WorkerOnMessage(wk, <<"clearTimeout", id>>)
    IN /\ ci = [wk EXCEPT !.intervalMap = @ \ {id}]
       /\ id \notin wk.intervalMap => ci = wk
       /\ id \notin wk.timeoutMap => ct = wk

\* C26 (step part): a tick is sent only for an armed id, and an id is armed
\* as an interval only by reading its setInterval message.
C26_IntervalSteps ==
  /\ TicksOnlyWhenArmed
  /\ \A w \in 1..Len(workers) :
       \A id \in workers'[w].intervalMap \ workers[w].intervalMap :
         /\ workers[w].inbox # <<>>
         /\ Head(workers[w].inbox)[1] = "setInterval"
         /\ Head(workers[w].inbox)[2] = id
         /\ workers'[w].inbox = Tail(workers[w].inbox)

\* C26: once the worker has read clearInterval for an armed interval id, the
\* id is out of intervalMap and no further tick is sent for it; a cancel
\* message for an id absent from the map of its kind changes nothing, sends
\* nothing and raises nothing.
C26_RepeatingProtocol ==
  /\ []C26_CancelInWorker
  /\ [][C26_IntervalSteps]_vars

\* C26 witness: a live worker has the interval id armed, a tick for it in
\* flight and its clearInterval message unread; reading the message disarms
\* the id, and a clearTimeout message for the same id would change nothing.
C26_Witness ==
  \E w \in 1..Len(workers) : \E id \in workers[w].intervalMap :
    /\ ~workers[w].terminated
    /\ workers[w].outbox = <<id>>
    /\ workers[w].inbox = << <<"clearInterval", id>> >>
    /\ WorkerOnMessage(workers[w], Head(workers[w].inbox)).intervalMap = {}
    /\ WorkerOnMessage(workers[w], <<"clearTimeout", id>>) = workers[w]

\* C27 (at the deactivation): when destroy() of an Active Coordinator has
\* returned, a notification for any id invokes nothing and changes nothing.
C27_DestroyForgets ==
  \A c \in Coords :
    Active(c) =>
      LET d == Fresh(DestroyCoordinator(Cur, c))
      IN \A id \in IdSpace :
           LET r == OnMessage(d, c, id)
           IN r.ev = <<>> /\ r.threw = "none" /\ r.coords = d.coords

\* C27 (later): a Coordinator that is not Active holds no entry, and every
\* notification still queued from a terminated worker, delivered to the
\* Coordinator that created the worker, invokes nothing and changes nothing,
\* whatever has been activated and registered since.
C27_LateTicksSilent ==
  /\ \A c \in Coords : ~Active(c) => Known(c) = {}
  /\ \A w \in 1..Len(workers) :
       workers[w].terminated =>
         \A i \in 1..Len(workers[w].outbox) :
           LET r == OnMessage(Cur, workers[w].owner, workers[w].outbox[i])
           IN r.ev = <<>> /\ r.threw = "none" /\ SameState(r)

\* C27: a callback registered before a destroy() is never invoked after that
\* destroy() has returned: the mapping is empty then, the ids it held never
\* come back, and late notifications of the terminated worker find nothing,
\* also after the same object or a new singleton was activated and has
\* registered timers.
C27_NoInvocationAfterDestroy ==
  /\ [](C27_DestroyForgets /\ C27_LateTicksSilent)
  /\ [][RemovedStaysRemoved]_vars

\* C27 witness: the tick of timer 1 of a deactivated Coordinator is still
\* queued from its terminated worker while a new singleton is Active and has
\* itself registered a timer with the id 1; delivered, the tick invokes
\* nothing.
C27_Witness ==
  \E w \in 1..Len(workers) : \E c2 \in Coords :
    /\ workers[w].terminated
    /\ workers[w].outbox = <<1>>
    /\ c2 # workers[w].owner
    /\ instance = c2
    /\ Installed(c2, "setTimeout")
    /\ 1 \in Known(c2)
    /\ Delivered(w).ev = <<>>
    /\ Delivered(w).coords = coords

\* C27 witness, same object: the tick of timer 1 is still queued from the
\* first, terminated worker of a Coordinator that was activated again and
\* has registered timer 2; delivered, the tick invokes nothing.
C27_WitnessSameObject ==
  \E w \in 1..Len(workers) :
    LET c == workers[w].owner
    IN /\ workers[w].terminated
       /\ workers[w].outbox = <<1>>
       /\ Active(c)
       /\ Known(c) = {2}
       /\ Delivered(w).ev = <<>>

\* C28 (state part): a notification for an entry whose callback raises is
\* handled without raising and reports the error once; a Timeout entry is
\* removed all the same and the next notification for its id invokes nothing;
\* an Interval entry stays as it was and the next notification invokes its
\* callback again.
C28_FaultKeepsKind ==
  \A c \in Coords : \A id \in Known(c) :
    Mapping(c)[id].callback = "cbThrow" =>
      LET e == Mapping(c)[id]
          r == OnMessage(Cur, c, id)
          r2 == OnMessage(Fresh(r), c, id)
          call == <<"invoke", c, id, e.callback, e.args>>
      IN /\ r.threw = "none"
         /\ Invokes(r.ev) = <<call>>
         /\ Len(Reports(r.ev)) = 1
         /\ IF e.type = "timeout"
              THEN /\ r.coords[c].callbacks = MapDelete(Mapping(c), id)
                   /\ r2.ev = <<>>
                   /\ r2.coords = r.coords
              ELSE /\ r.coords[c].callbacks = Mapping(c)
                   /\ Invokes(r2.ev) = <<call>>
                   /\ r2.threw = "none"
                   /\ r2.coords[c].callbacks = Mapping(c)

\* C28: a Timeout entry whose callback raises is removed and never invoked
\* again (its id never returns to the mapping); an Interval entry whose
\* callback raises stays and is invoked on the next notification.
C28_OneShotSurvivesFault ==
  /\ []C28_FaultKeepsKind
  /\ [][RemovedStaysRemoved /\ EntriesImmutable]_vars

\* C28 witness: the worker's tick for a registered timeout whose callback
\* raises is delivered to its Active Coordinator while an interval whose
\* callback raises is registered too: the error is reported, the timeout
\* leaves the mapping and the interval stays.
C28_Witness ==
  \E w \in 1..Len(workers) :
    /\ TickQueued(w)
    /\ LET c == workers[w].owner
           id == Head(workers[w].outbox)
           r == Delivered(w)
       IN /\ Active(c)
          /\ id \in Known(c)
          /\ Mapping(c)[id].type = "timeout"
          /\ Mapping(c)[id].callback = "cbThrow"
          /\ Len(Reports(r.ev)) = 1
          /\ id \notin DOMAIN r.coords[c].callbacks
          /\ \E id2 \in DOMAIN r.coords[c].callbacks :
               /\ Mapping(c)[id2].type = "interval"
               /\ Mapping(c)[id2].callback = "cbThrow"
               /\ Len(Invokes(OnMessage(Fresh(r), c, id2).ev)) = 1

\* the four global slots hold the overrides of the Active Coordinator c
AllInstalled(c) == \A w \in Which : Installed(c, w)

\* C29 (state part): a notification for an entry whose callback re-enters the
\* library through the installed overrides is handled without raising or
\* reporting an error. If the callback cancels its own id, the id is out of
\* the mapping, one cancellation message was posted and the next notification
\* for the id invokes nothing. If it registers a timer, the new id is in the
\* mapping and its own id is gone exactly if it was a Timeout. If it calls
\* destroy(), the Coordinator is deactivated, the mapping is empty and the
\* next notification invokes nothing.
C29_ReentrantTick ==
  \A c \in Coords : \A id \in Known(c) :
    (AllInstalled(c) /\ Mapping(c)[id].callback \in {"cbCancelSelf", "cbRegister", "cbDestroy"}) =>
      LET e == Mapping(c)[id]
          r == OnMessage(Cur, c, id)
          r2 == OnMessage(Fresh(r), c, id)
          new == coords[c].idCounter + 1
      IN /\ r.threw = "none"
         /\ Reports(r.ev) = <<>>
         /\ Invokes(r.ev) = << <<"invoke", c, id, e.callback, e.args>> >>
         /\ e.type = "timeout" => id \notin DOMAIN r.coords[c].callbacks
         /\ e.callback = "cbCancelSelf" =>
              /\ r.coords[c].callbacks = MapDelete(Mapping(c), id)
              /\ Len(Posts(r.ev)) = 1
              /\ Posts(r.ev)[1][3] = <<CancelCommand(e), id>>
              /\ r2.ev = <<>> /\ r2.threw = "none"
         /\ e.callback = "cbRegister" =>
              /\ new \in DOMAIN r.coords[c].callbacks
              /\ r.coords[c].callbacks[new].callback = "cbOk"
              /\ r.coords[c].isInitialized
              /\ DOMAIN r.coords[c].callbacks =
                   (IF e.type = "timeout" THEN Known(c) \ {id} ELSE Known(c)) \cup {new}
              /\ Len(Invokes(OnMessage(Fresh(r), c, new).ev)) = 1
         /\ e.callback = "cbDestroy" =>
              /\ ~r.coords[c].isInitialized
              /\ r.coords[c].callbacks = EmptyMap
              /\ r.workers[coords[c].worker].terminated
              /\ r2.ev = <<>> /\ r2.threw = "none"

\* C29: re-entrant calls from a callback are safe: the handler completes
\* without error, a cancelled or one-shot id is gone and stays gone, a newly
\* registered timer stays unless the Coordinator was deactivated.
C29_ReentrantCallsSafe ==
  /\ []C29_ReentrantTick
  /\ [][RemovedStaysRemoved /\ EntriesImmutable]_vars

\* C29 witness: the worker's tick for an interval whose callback cancels its
\* own id is delivered while a second timer, whose callback calls destroy(),
\* is registered: the first tick removes only its own id, and a tick for the
\* second deactivates the Coordinator in the middle of the handler.
C29_Witness ==
  \E w \in 1..Len(workers) :
    /\ TickQueued(w)
    /\ LET c == workers[w].owner
           id == Head(workers[w].outbox)
           r == Delivered(w)
       IN /\ AllInstalled(c)
          /\ id \in Known(c)
          /\ Mapping(c)[id].type = "interval"
          /\ Mapping(c)[id].callback = "cbCancelSelf"
          /\ id \notin DOMAIN r.coords[c].callbacks
          /\ \E id2 \in DOMAIN r.coords[c].callbacks :
               /\ Mapping(c)[id2].callback = "cbDestroy"
               /\ ~OnMessage(Fresh(r), c, id2).coords[c].isInitialized

\* C29 witness, registration: the worker's tick for a timeout whose callback
\* registers a new timeout is delivered: the new id is in the mapping and the
\* old one is gone.
C29_WitnessRegister ==
  \E w \in 1..Len(workers) :
    /\ TickQueued(w)
    /\ LET c == workers[w].owner
           id == Head(workers[w].outbox)
           r == Delivered(w)
       IN /\ AllInstalled(c)
          /\ id \in Known(c)
          /\ Mapping(c)[id].type = "timeout"
          /\ Mapping(c)[id].callback = "cbRegister"
          /\ DOMAIN r.coords[c].callbacks = {id + 1}

\* every message posted in the trace of the result r went to a worker that
\* was live when the operation began, is the worker its Active owner
\* references, and had not been terminated earlier in the operation
PostsToLive(r) ==
  \A i \in 1..Len(r.ev) :
    r.ev[i][1] = "postMessage" =>
      LET w == r.ev[i][2]
      IN /\ w \in 1..Len(workers)
         /\ ~workers[w].terminated
         /\ Active(workers[w].owner)
         /\ coords[workers[w].owner].worker = w
         /\ \A j \in 1..(i - 1) : r.ev[j] # <<"terminate", w>>

\* C30 (the field): an Active Coordinator references a worker, which is
\* live, is its own and is the last one it created; a Coordinator that is
\* not Active references none.
C30_ActiveHasLiveWorker ==
  \A c \in Coords :
    IF Active(c)
      THEN LET w == coords[c].worker
           IN /\ w \in 1..Len(workers)
              /\ ~workers[w].terminated
              /\ workers[w].owner = c
              /\ \A w2 \in 1..Len(workers) : workers[w2].owner = c => w2 <= w
      ELSE coords[c].worker = 0

\* C30 (the operations): whatever operation of the library runs in a
\* reachable state, with whatever arguments, every message it posts goes to
\* such a live worker, and destroy() posts its cancellation messages before
\* it terminates the worker.
C30_OperationsPostToLive ==
  /\ \A c \in Coords : \A w \in Which :
       \A a \in IF w \in StartNames THEN StartCalls \cup ReentrantCalls
                 ELSE {<<id>> : id \in IdSpace} :
         HasOverrides(c) => PostsToLive(OverrideBody(Cur, c, w, a))
  /\ \A c \in Coords :
       /\ PostsToLive(DestroyCoordinator(Cur, c))
       /\ \A id \in IdSpace : PostsToLive(OnMessage(Cur, c, id))
       /\ \A outcome \in HostOutcomes : PostsToLive(InitCoordinator(Cur, c, outcome))
  /\ PostsToLive(DestroyTabSafeTimers(Cur))
  /\ \A outcome \in HostOutcomes : PostsToLive(InitTabSafeTimers(Cur, outcome))

\* C30: the Coordinator never posts to an absent or terminated worker.
C30_NeverPostsToDeadWorker == C30_ActiveHasLiveWorker /\ C30_OperationsPostToLive

\* C30 witness: the tick of a timer whose callback calls destroy() is
\* delivered to a Coordinator that was activated for the second time and
\* holds two timers: the two cancellation messages are posted to its second
\* worker, which is then terminated; nothing goes to the first.
C30_Witness ==
  \E w \in 1..Len(workers) :
    /\ TickQueued(w)
    /\ LET c == workers[w].owner
           id == Head(workers[w].outbox)
           r == Delivered(w)
       IN /\ Active(c)
          /\ id \in Known(c)
          /\ Mapping(c)[id].callback = "cbDestroy"
          /\ Cardinality(Known(c)) = 2
          /\ \E w1 \in 1..Len(workers) : w1 < w /\ workers[w1].owner = c
          /\ Len(Posts(r.ev)) = 2
          /\ \A i \in 1..2 : Posts(r.ev)[i][2] = w
          /\ r.workers[w].terminated

====
